---------------------------- MODULE Spec2Model ----------------------------
(***************************************************************************)
(* LoudMouth push-to-talk dictation: the capture engine and model          *)
(* lifecycle of AudioHandler (src/audio_handler.py) and the hotkey gate    *)
(* of HotkeyManager (src/hotkey_manager.py).                               *)
(*                                                                         *)
(* Spec       : AudioHandler, its capture threads, the startup load        *)
(*              thread and reload_model on the UI thread.                  *)
(* FairSpec   : Spec with the capture and load threads scheduled fairly.   *)
(* LifecycleSpec : the startup load, reload_model and sessions that do     *)
(*              not overlap.                                               *)
(* DeviceSpec : the metering stream, the monitor thread and cleanup.       *)
(* HotkeySpec : HotkeyManager, the raw keyboard / mouse events of the      *)
(*              listener threads, set_hotkey and capture_new_hotkey.       *)
(* CaptureSpec : HotkeySpec with capture sessions whose listeners fail to  *)
(*              start; CaptureFairSpec adds the caller's stop call.        *)
(* DialogSpec : the HotkeyCapture dialog (src/hotkey_capture.py), the      *)
(*              persisted binding and the gate it is applied to.           *)
(* PipelineSpec : the gate's callbacks into start_recording and            *)
(*              stop_recording, run in the listener threads (src/main.py). *)
(*              PipelineFairSpec lets every invoked callback finish.       *)
(* EnumSpec   : get_audio_devices on a host whose devices come and go.     *)
(* MeterSpec  : get_audio_level, set_device and set_mute beside sessions.  *)
(* StoreSpec  : ModelManager's weight files (src/model_manager.py).        *)
(* SettingsSpec : apply_settings (src/main.py) with the default settings   *)
(*              of SettingsManager (src/settings_manager.py).              *)
(***************************************************************************)
EXTENDS Integers, Sequences, FiniteSets, TLC

(***************************************************************************)
(* Bounds of the model.                                                    *)
(***************************************************************************)
\* capture threads that may be alive at once (slots are reused once done)
MaxSessions == 2
\* chunks kept in a session's frame list (the list saturates here)
MaxFrames == 1

None == "None"

\* whisper model sizes the settings can name
ModelIds == {"small", "tiny"}

Sessions == 1..MaxSessions

(***************************************************************************)
(* State of AudioHandler.                                                  *)
(***************************************************************************)
VARIABLES
    whisper_model,    \* self.whisper_model: None or the loaded model
    model_size,       \* settings_manager.get_whisper_model_size()
    is_recording,     \* self.is_recording
    is_muted,         \* self.is_muted
    status,           \* last message given to status_callback
    rec,              \* the capture threads (_record_audio), one per slot
    temp_file_path,   \* self.temp_file_path: 0 (None) or the owning slot
    temp_fd,          \* self.temp_fd: 0 (None) or the owning slot
    files,            \* scratch WAV files that exist on disk
    fds,              \* file descriptors that are open
    loader,           \* the startup thread of _load_whisper_model_async
    reload,           \* reload_model running on the UI thread
    start_ret,        \* last return value of start_recording
    stop_ret,         \* last return value of stop_recording
    armed,            \* a start_recording returned True and no stop_recording since
    level_stream,     \* self.level_stream is an open metering stream
    monitor,          \* the monitor thread of main.py (monitor_audio)
    cleanup           \* AudioHandler.cleanup: "none", "join" or "done"

(***************************************************************************)
(* The host's audio devices as PyAudio reports them.                       *)
(***************************************************************************)
VARIABLES
    hw,               \* maxInputChannels of the host's devices, by index
    enum,             \* get_audio_devices: what it returned, and whether
                      \* it went through its except branch
    selected_device_index   \* self.selected_device_index

hostVars == <<hw, enum, selected_device_index>>

VARIABLE
    level             \* get_audio_level: the chunk it read, the value it
                      \* returned (in hundredths) and whether it ended in
                      \* its except branch

\* the metering stream, its monitor thread and the shutdown
(***************************************************************************)
(* ModelManager: the weight files on disk and the last lookup.             *)
(***************************************************************************)
VARIABLES
    model_files,      \* the weight files that exist, as [dir, name]
    lookup            \* what is_model_available and get_model_path said
                      \* about a model identifier

storeVars == <<model_files, lookup>>

deviceVars == <<level_stream, monitor, cleanup, hostVars, level, storeVars>>

audioVars == <<whisper_model, model_size, is_recording, is_muted, status, rec,
               temp_file_path, temp_fd, files, fds, loader, reload,
               start_ret, stop_ret, armed, deviceVars>>

(***************************************************************************)
(* State of HotkeyManager, and the physical inputs it listens to.          *)
(***************************************************************************)
VARIABLES
    current_hotkey,     \* self.current_hotkey
    is_pressed,         \* self.is_pressed
    pressed_keys,       \* self.pressed_keys
    is_setting_hotkey,  \* self.is_setting_hotkey
    listening,          \* the main keyboard and mouse listeners are running
    cap_kb,             \* the capture keyboard listener is running
    cap_ms,             \* the capture mouse listener is running
    cap_keys,           \* capture_pressed_keys of the capture session
    cap_session,        \* a stop_capture function is held by the caller
    captured,           \* the binding the running capture session handed to its callback
    down,               \* keys and buttons that are physically held
    cb,                 \* on_hotkey_press / on_hotkey_release invoked by the last step
    hold,               \* edges seen during the hold of the trigger being observed
    stale               \* triggers of a binding replaced mid-press, still held

(***************************************************************************)
(* State of the HotkeyCapture dialog and the persisted binding.            *)
(***************************************************************************)
VARIABLES
    dlg,                \* HotkeyCapture: capture_mode, combo_step, modifier_key
    saved_hotkey        \* SettingsManager.settings['hotkey']

dialogVars == <<dlg, saved_hotkey>>

(***************************************************************************)
(* The hotkey callbacks of main.py running in the listener threads.        *)
(***************************************************************************)
VARIABLES
    calls,              \* per listener thread: the callback it is inside
    hold_started        \* start_recording of the latest press edge returned

pipeVars == <<calls, hold_started>>

hotkeyVars == <<current_hotkey, is_pressed, pressed_keys, is_setting_hotkey,
                listening, cap_kb, cap_ms, cap_keys, cap_session, captured,
                down, cb, hold, stale, dialogVars, pipeVars>>

vars == <<audioVars, hotkeyVars>>

----------------------------------------------------------------------------
(***************************************************************************)
(* Capture threads.                                                        *)
(***************************************************************************)
\* pc, stream and frames are the thread's position and locals; the other
\* fields record what the thread did: broke (the loop ended by a chunk error),
\* handed (calls of _save_audio_file), checked / used (the model seen at lines
\* 290 and 302), swapped (a reload ran in between), raw (the text inference
\* returned), cbs (calls of transcript_callback), outcome (how it ended)
IdleSession ==
    [pc |-> "idle", stream |-> FALSE, frames |-> 0, broke |-> FALSE,
     handed |-> 0, checked |-> None, used |-> None, swapped |-> FALSE,
     raw |-> <<>>, cbs |-> 0, outcome |-> "none"]

\* a slot is free when no thread runs in it
Free(i) == rec[i].pc = "idle"

FreeSlots == {i \in Sessions : Free(i)}

LowestFree == CHOOSE i \in FreeSlots : \A j \in FreeSlots : i <= j

\* recording input streams that are open (stream = p.open(...) not yet closed)
OpenStreams == {i \in Sessions : rec[i].stream}

\* capture threads that are alive
AliveThreads == {i \in Sessions : ~Free(i)}

----------------------------------------------------------------------------
(***************************************************************************)
(* set_mute                                                                *)
(***************************************************************************)
UIFree == reload.pc = "idle"

\* mutant of set_mute: muting also clears the recording flag
SetMute_StopsRecording(muted) ==
    /\ UIFree
    /\ is_muted' = muted
    /\ is_recording' = IF muted THEN FALSE ELSE is_recording
    /\ status' = IF muted THEN "Microphone muted" ELSE "Ready"
    /\ UNCHANGED <<whisper_model, model_size, rec, temp_file_path,
                   temp_fd, files, fds, loader, reload, start_ret, armed,
                   stop_ret>>
    /\ UNCHANGED <<deviceVars, hotkeyVars>>

\* set_mute, lines 187-193
SetMute(muted) ==
    /\ UIFree
    /\ is_muted' = muted
    /\ status' = IF muted THEN "Microphone muted" ELSE "Ready"
    /\ UNCHANGED <<whisper_model, model_size, is_recording, rec, temp_file_path,
                   temp_fd, files, fds, loader, reload, start_ret, armed,
                   stop_ret>>
    /\ UNCHANGED <<deviceVars, hotkeyVars>>

(***************************************************************************)
(* start_recording / stop_recording                                        *)
(***************************************************************************)
\* mutants of the guard of line 201
StartRejected_MuteOnly == is_muted

StartRejected_RecordingOnly == is_recording

\* line 201: if self.is_recording or self.is_muted
StartRejected == is_recording \/ is_muted

\* start_recording, lines 199-217, as its caller sees it
StartRecordingCall ==
    \/ /\ StartRejected
       /\ status' = IF is_muted THEN "Microphone is muted" ELSE status
       /\ start_ret' = FALSE
       /\ UNCHANGED <<whisper_model, model_size, is_recording, is_muted, rec,
                      temp_file_path, temp_fd, files, fds, loader, reload, armed,
                      stop_ret>>
    \/ /\ ~StartRejected
       /\ FreeSlots # {}
       /\ is_recording' = TRUE
       /\ status' = "Recording..."
       /\ rec' = [rec EXCEPT ![LowestFree] = [IdleSession EXCEPT !.pc = "open"]]
       /\ start_ret' = TRUE
       /\ armed' = TRUE
       /\ UNCHANGED <<whisper_model, model_size, is_muted, temp_file_path,
                      temp_fd, files, fds, loader, reload, stop_ret>>
    \/ \* threading.Thread(...).start() raises: lines 214-217
       /\ ~StartRejected
       /\ is_recording' = FALSE
       /\ status' = "Recording start error"
       /\ start_ret' = FALSE
       /\ UNCHANGED <<whisper_model, model_size, is_muted, rec, temp_file_path,
                      temp_fd, files, fds, loader, reload, armed, stop_ret>>

\* start_recording called from the application
StartRecording == StartRecordingCall /\ UNCHANGED <<deviceVars, hotkeyVars>>

\* mutant of the guard of line 221
StopRejected_Never == FALSE

\* line 221: if not self.is_recording
StopRejected == ~is_recording

\* stop_recording, lines 219-226, as its caller sees it
StopRecordingCall ==
    \/ /\ StopRejected
       /\ stop_ret' = FALSE
       /\ armed' = FALSE
       /\ UNCHANGED <<whisper_model, model_size, is_recording, is_muted, status,
                      rec, temp_file_path, temp_fd, files, fds, loader, reload,
                      start_ret>>
    \/ /\ ~StopRejected
       /\ is_recording' = FALSE
       /\ status' = "Processing..."
       /\ stop_ret' = TRUE
       /\ armed' = FALSE
       /\ UNCHANGED <<whisper_model, model_size, is_muted, rec, temp_file_path,
                      temp_fd, files, fds, loader, reload, start_ret>>

\* stop_recording called from the application
StopRecording == StopRecordingCall /\ UNCHANGED <<deviceVars, hotkeyVars>>

----------------------------------------------------------------------------
(***************************************************************************)
(* _record_audio, one step of thread i at a time.                          *)
(***************************************************************************)
threadFrame == <<whisper_model, model_size, is_recording, is_muted, loader,
                 reload, start_ret, armed, stop_ret, deviceVars, hotkeyVars>>

\* lines 233-243: p.open(...) succeeds, or raises and the thread ends
OpenStream(i) ==
    /\ rec[i].pc = "open"
    /\ \/ /\ rec' = [rec EXCEPT ![i].pc = "loop", ![i].stream = TRUE]
          /\ UNCHANGED status
       \/ /\ rec' = [rec EXCEPT ![i] = IdleSession]
          /\ status' = "Recording error"
    /\ UNCHANGED <<threadFrame, temp_file_path, temp_fd, files, fds>>

\* frames discarded whatever was captured
AfterLoop_Discard(i) == "close"

\* lines 252-253: if frames: self._save_audio_file(frames)
AfterLoop(i) == IF rec[i].frames > 0 THEN "save" ELSE "close"

\* lines 244-250: one turn of the read loop
ReadChunk(i) ==
    /\ rec[i].pc = "loop"
    /\ \/ /\ is_recording
          /\ \/ rec' = [rec EXCEPT ![i].frames =
                            IF @ < MaxFrames THEN @ + 1 ELSE @]
             \/ \* stream.read raises OSError: break (lines 248-250)
                rec' = [rec EXCEPT ![i].pc = AfterLoop(i), ![i].broke = TRUE]
       \/ /\ ~is_recording
          /\ rec' = [rec EXCEPT ![i].pc = AfterLoop(i)]
    /\ UNCHANGED <<threadFrame, status, temp_file_path, temp_fd, files, fds>>

\* _cleanup_temp_file, lines 407-421, as the values it leaves
CleanFds == IF temp_fd # 0 THEN fds \ {temp_fd} ELSE fds

\* the file is never unlinked
CleanFiles_Keep == files

CleanFiles == IF temp_file_path # 0 THEN files \ {temp_file_path} ELSE files

\* line 416: the path is reset only when the file still exists
CleanPath ==
    IF temp_file_path # 0 /\ temp_file_path \in files THEN 0 ELSE temp_file_path

\* _save_audio_file, lines 268-285
SaveAudioFile(i) ==
    /\ rec[i].pc = "save"
    /\ temp_fd' = i
    /\ temp_file_path' = i
    /\ fds' = CleanFds \cup {i}
    /\ files' = CleanFiles \cup {i}
    /\ \/ /\ rec' = [rec EXCEPT ![i].pc = "check", ![i].handed = @ + 1]
          /\ UNCHANGED status
       \/ \* wave.open / writeframes raises
          /\ rec' = [rec EXCEPT ![i].pc = "close", ![i].handed = @ + 1,
                                ![i].outcome = "save_error"]
          /\ status' = "Save audio error"
    /\ UNCHANGED threadFrame

\* _transcribe_audio line 290
CheckModel(i) ==
    /\ rec[i].pc = "check"
    /\ IF whisper_model = None \/ temp_file_path = 0
         THEN /\ rec' = [rec EXCEPT ![i].pc = "close", ![i].outcome = "no_model"]
              /\ status' = "No model or audio file"
              /\ temp_fd' = 0
              /\ fds' = CleanFds
              /\ files' = CleanFiles
              /\ temp_file_path' = CleanPath
         ELSE /\ rec' = [rec EXCEPT ![i].pc = "bind", ![i].checked = whisper_model]
              /\ UNCHANGED <<status, temp_fd, fds, files, temp_file_path>>
    /\ UNCHANGED threadFrame

\* line 302: self.whisper_model.transcribe(self.temp_file_path, ...) is entered;
\* whisper first reads the audio file named by the path
BindModel(i) ==
    /\ rec[i].pc = "bind"
    /\ IF whisper_model = None
         THEN \* AttributeError on None, caught at line 347
              /\ rec' = [rec EXCEPT ![i].pc = "close", ![i].outcome = "error_no_handle"]
              /\ status' = "Transcription error"
              /\ temp_fd' = 0
              /\ fds' = CleanFds
              /\ files' = CleanFiles
              /\ temp_file_path' = CleanPath
         ELSE IF temp_file_path = 0 \/ temp_file_path \notin files
         THEN \* the scratch file is gone: whisper raises, caught at line 347
              /\ rec' = [rec EXCEPT ![i].pc = "close", ![i].used = whisper_model,
                                    ![i].outcome = "error_no_file"]
              /\ status' = "Transcription error"
              /\ temp_fd' = 0
              /\ fds' = CleanFds
              /\ files' = CleanFiles
              /\ temp_file_path' = CleanPath
         ELSE /\ rec' = [rec EXCEPT ![i].pc = "infer", ![i].used = whisper_model]
              /\ UNCHANGED <<status, temp_fd, fds, files, temp_file_path>>
    /\ UNCHANGED threadFrame

\* result["text"] values inference may return, as sequences of characters
RawTexts == {<<>>, <<" ">>, <<"h">>, <<" ", "h", " ">>}

Whitespace == {" "}

RECURSIVE StripLeft(_)
StripLeft(s) ==
    IF s # <<>> /\ Head(s) \in Whitespace THEN StripLeft(Tail(s)) ELSE s

RECURSIVE StripRight(_)
StripRight(s) ==
    IF s # <<>> /\ s[Len(s)] \in Whitespace
      THEN StripRight(SubSeq(s, 1, Len(s) - 1)) ELSE s

\* the text is handed on untrimmed
Strip_Identity(s) == s

\* line 329: result["text"].strip()
Strip(s) == StripRight(StripLeft(s))

\* lines 329-350: inference returns a text or raises; finally
FinishInference(i) ==
    /\ rec[i].pc = "infer"
    /\ \/ \E r \in RawTexts :
            LET text == Strip(r)
            IN  IF text # <<>>
                  THEN /\ status' = "Transcription ready"
                       /\ rec' = [rec EXCEPT ![i].pc = "close", ![i].raw = r,
                                             ![i].cbs = @ + 1, ![i].outcome = "text"]
                  ELSE /\ status' = "No speech detected"
                       /\ rec' = [rec EXCEPT ![i].pc = "close", ![i].raw = r,
                                             ![i].outcome = "empty"]
       \/ /\ status' = "Transcription error"
          /\ rec' = [rec EXCEPT ![i].pc = "close",
                                ![i].outcome = "error_inference"]
    /\ temp_fd' = 0
    /\ fds' = CleanFds
    /\ files' = CleanFiles
    /\ temp_file_path' = CleanPath
    /\ UNCHANGED threadFrame

\* lines 257-266: the finally of _record_audio
CloseStream(i) ==
    /\ rec[i].pc = "close"
    /\ rec' = [rec EXCEPT ![i] = IdleSession]
    /\ UNCHANGED <<threadFrame, status, temp_file_path, temp_fd, files, fds>>

----------------------------------------------------------------------------
(***************************************************************************)
(* Model lifecycle: the startup thread and reload_model.                   *)
(***************************************************************************)
loadFrame == <<is_recording, is_muted, temp_file_path, temp_fd, files, fds,
               start_ret, armed, stop_ret, deviceVars, hotkeyVars>>

\* the statuses a load emits once whisper.load_model has returned or raised:
\* "ready" (lines 62 / 81), or "failed" (lines 100 / 115) and then "error"
\* (_handle_model_error, line 120); here "ready" is emitted in any case
LoadStatuses_ReadyInAnyCase(ok) ==
    IF ok THEN <<"ready">> ELSE <<"failed", "error", "ready">>

LoadStatuses(ok) == IF ok THEN <<"ready">> ELSE <<"failed", "error">>

\* lines 51-54 in the startup thread
LoaderBegin ==
    /\ loader.pc = "start"
    /\ loader' = [pc |-> "loading", size |-> model_size, log |-> <<"loading">>,
                  ok |-> FALSE]
    /\ status' = "Loading model..."
    /\ UNCHANGED <<loadFrame, whisper_model, model_size, rec, reload>>

\* lines 56-65: whisper.load_model returns and is assigned, or raises
LoaderFinish ==
    /\ loader.pc = "loading"
    /\ \E ok \in BOOLEAN :
          /\ IF ok THEN whisper_model' = loader.size ELSE UNCHANGED whisper_model
          /\ LET said == LoadStatuses(ok)
             IN  /\ status' = IF said[Len(said)] = "ready"
                                 THEN "model ready" ELSE "Model load error"
                 /\ loader' = [pc |-> "done", size |-> None,
                               log |-> loader.log \o said, ok |-> ok]
    /\ UNCHANGED <<loadFrame, model_size, rec, reload>>

\* sessions whose transcription has passed line 290 and has not returned
InFlight(i) == rec[i].pc \in {"bind", "infer"}

\* SettingsWindow._save_settings stores the size and calls reload_model
\* (lines 124-142, up to the blocking load)
ReloadBegin(m) ==
    /\ reload.pc = "idle"
    /\ model_size' = m
    /\ reload' = [pc |-> "loading", prev |-> whisper_model,
                  log |-> <<"switching", "loading">>, ok |-> FALSE]
    /\ whisper_model' = None
    /\ status' = "Loading model..."
    /\ rec' = [i \in Sessions |->
                 IF InFlight(i) THEN [rec[i] EXCEPT !.swapped = TRUE] ELSE rec[i]]
    /\ UNCHANGED <<loadFrame, loader>>

\* _load_whisper_model, lines 71-86, when the load returns
ReloadFinish ==
    /\ reload.pc = "loading"
    /\ \E ok \in BOOLEAN :
          \* line 74 reads the size again
          /\ IF ok THEN whisper_model' = model_size ELSE UNCHANGED whisper_model
          /\ LET said == LoadStatuses(ok)
             IN  /\ status' = IF said[Len(said)] = "ready"
                                 THEN "model ready" ELSE "Model load error"
                 /\ reload' = [pc |-> "idle", prev |-> None,
                               log |-> reload.log \o said, ok |-> ok]
    /\ UNCHANGED <<loadFrame, model_size, rec, loader>>

----------------------------------------------------------------------------
(***************************************************************************)
(* The metering stream: the monitor thread of main.py and get_audio_level. *)
(***************************************************************************)
meterFrame == <<whisper_model, model_size, is_recording, is_muted, status, rec,
                temp_file_path, temp_fd, files, fds, loader, reload,
                start_ret, armed, stop_ret, cleanup, hostVars, storeVars,
                hotkeyVars>>

\* main.py line 96: if not self.audio_handler.is_recording (else it sleeps)
MonitorCheck ==
    /\ monitor = "sleep"
    /\ ~is_recording
    /\ monitor' = "level"
    /\ UNCHANGED <<meterFrame, level_stream, level>>

\* samples per chunk kept by the model
MaxChunk == 1

\* 16-bit samples: the most negative one, silence, the first whose square
\* passes 2^15, and one whose square passes 2^16
Chunks == UNION {[1..n -> {-32768, 0, 182, 300}] : n \in 1..MaxChunk}

\* an int16 result: the low 16 bits, read as two's complement
Int16(x) ==
    LET m == x % 65536 IN IF m >= 32768 THEN m - 65536 ELSE m

\* the sum of audio_array**2, squared in int16 (line 365)
RECURSIVE SumSq(_, _)
SumSq(c, n) == IF n = 0 THEN 0 ELSE SumSq(c, n - 1) + Int16(c[n] * c[n])

\* floor of the square root
RECURSIVE Bisect(_, _, _)
Bisect(n, lo, hi) ==
    IF hi - lo <= 1 THEN lo
    ELSE LET mid == (lo + hi) \div 2
         IN  IF mid * mid <= n THEN Bisect(n, mid, hi) ELSE Bisect(n, lo, mid)

\* lines 364-371, in hundredths: mean_square = np.mean(audio_array**2);
\* when it is positive, min(100, (sqrt(mean_square) / 500) * 100), else 0.0;
\* np.sqrt to the integer below, its arguments stay under 2^24
LevelOf(c) ==
    LET sum == SumSq(c, Len(c))
        root == Bisect((400 * sum) \div Len(c), 0, 4096)
    IN  IF sum > 0 THEN (IF root < 10000 THEN root ELSE 10000) ELSE 0

NoChunk == <<>>

\* mutant of _reset_level_stream: the stream is kept
ResetLevelStream_Keep(stream) == stream

\* _reset_level_stream, lines 397-405: self.level_stream = None
ResetLevelStream(stream) == FALSE

\* get_audio_level up to the device read: lines 354-362 and
\* _create_level_stream, lines 378-395
GetAudioLevel ==
    /\ monitor = "level"
    /\ IF is_muted
         THEN /\ monitor' = "sleep"                       \* return 0.0
              /\ level' = [chunk |-> NoChunk, ret |-> 0, err |-> FALSE]
              /\ UNCHANGED level_stream
       ELSE IF level_stream
         THEN monitor' = "read" /\ UNCHANGED <<level_stream, level>>
       ELSE \/ level_stream' = TRUE /\ monitor' = "read" /\ UNCHANGED level
            \/ \* level_pyaudio.open raises OSError: return 0.0
               /\ level_stream' = FALSE
               /\ monitor' = "sleep"
               /\ level' = [chunk |-> NoChunk, ret |-> 0, err |-> FALSE]
    /\ UNCHANGED meterFrame

\* lines 363-376: self.level_stream.read(...) returns a chunk, or raises
\* OSError and _reset_level_stream closes the stream
LevelRead ==
    /\ monitor = "read"
    /\ monitor' = "sleep"
    /\ \/ \E c \in Chunks :
            /\ level' = [chunk |-> c, ret |-> LevelOf(c), err |-> FALSE]
            /\ UNCHANGED level_stream
       \/ /\ level' = [chunk |-> NoChunk, ret |-> 0, err |-> TRUE]
          /\ level_stream' = ResetLevelStream(level_stream)
    /\ UNCHANGED meterFrame

\* selected_device_index None, the system default (-1 in the settings file)
DefaultDevice == -1

\* set_device, lines 182-185
SetDevice(device_index) ==
    /\ UIFree
    /\ selected_device_index' = device_index
    /\ level_stream' = ResetLevelStream(level_stream)
    /\ UNCHANGED <<hw, enum, monitor, cleanup, level, storeVars, hotkeyVars>>
    /\ UNCHANGED <<whisper_model, model_size, is_recording, is_muted, status,
                   rec, temp_file_path, temp_fd, files, fds, loader, reload,
                   start_ret, armed, stop_ret>>

(***************************************************************************)
(* get_audio_devices, lines 161-180.                                       *)
(***************************************************************************)
\* devices the host may have
MaxDevices == 3

\* maxInputChannels of each device: 0 for an output-only device
HostTables == UNION {[1..n -> {0, 1, 2}] : n \in 0..MaxDevices}

\* lines 167-174: the loop over the first n devices of table h; PyAudio
\* indexes devices from 0
RECURSIVE DevicesRead(_, _)
DevicesRead(h, n) ==
    IF n = 0 THEN <<>>
    ELSE IF h[n] > 0
      THEN Append(DevicesRead(h, n - 1), [index |-> n - 1, channels |-> h[n]])
    ELSE DevicesRead(h, n - 1)

\* devices are plugged in or removed
Replug(h) ==
    /\ h \in HostTables
    /\ h # hw
    /\ hw' = h
    /\ UNCHANGED <<enum, selected_device_index, level_stream, monitor, cleanup,
                   level, storeVars, hotkeyVars>>
    /\ UNCHANGED <<whisper_model, model_size, is_recording, is_muted, status,
                   rec, temp_file_path, temp_fd, files, fds, loader, reload,
                   start_ret, armed, stop_ret>>

\* get_audio_devices: it completes, or pyaudio.PyAudio(), get_device_count
\* (read = 0) or get_device_info_by_index(read) raises after `read` devices
GetAudioDevices ==
    /\ \/ /\ enum' = [ret |-> DevicesRead(hw, Len(hw)), failed |-> FALSE]
          /\ UNCHANGED status
       \/ \* lines 175-180: the except branch reports and falls through to
          \* `return devices`, the list as far as the loop had filled it
          \E read \in 0..Len(hw) :
            /\ enum' = [ret |-> DevicesRead(hw, read), failed |-> TRUE]
            /\ status' = "Device enumeration error"
    /\ UNCHANGED <<hw, selected_device_index, level_stream, monitor, cleanup,
                   level, storeVars, hotkeyVars>>
    /\ UNCHANGED <<whisper_model, model_size, is_recording, is_muted, rec,
                   temp_file_path, temp_fd, files, fds, loader, reload,
                   start_ret, armed, stop_ret>>

(***************************************************************************)
(* ModelManager.is_model_available and get_model_path, lines 179-202.      *)
(***************************************************************************)
\* identifiers that are looked up; "large-v3" is a Whisper model of its own
LookupIds == {"large", "large-v3"}

\* os.path.join(self.local_models_dir, f"{model_size}.pt")
LocalPath(m) == [dir |-> "models", name |-> m \o ".pt"]

\* os.path.join(self.cache_dir, f"{model_size}.pt")
CachePath(m) == [dir |-> "cache", name |-> m \o ".pt"]

\* os.path.join(self.cache_dir, f"{model_size}-v3.pt")
CachePathV3(m) == [dir |-> "cache", name |-> m \o "-v3.pt"]

NoPath == [dir |-> None, name |-> None]

\* the files the lookups may test
WeightPaths ==
    UNION {{LocalPath(m), CachePath(m), CachePathV3(m)} : m \in LookupIds}

\* os.path.exists
Exists(path) == path \in model_files

\* is_model_available, lines 179-188
IsModelAvailable(m) ==
    Exists(LocalPath(m)) \/ Exists(CachePath(m)) \/ Exists(CachePathV3(m))

\* mutant of get_model_path: the cache is consulted before the bundled file
GetModelPath_CacheFirst(m) ==
    IF Exists(CachePath(m)) THEN CachePath(m)
    ELSE IF Exists(LocalPath(m)) THEN LocalPath(m)
    ELSE IF Exists(CachePathV3(m)) THEN CachePathV3(m)
    ELSE NoPath

\* get_model_path, lines 190-202
GetModelPath(m) ==
    IF Exists(LocalPath(m)) THEN LocalPath(m)
    ELSE IF Exists(CachePath(m)) THEN CachePath(m)
    ELSE IF Exists(CachePathV3(m)) THEN CachePathV3(m)
    ELSE NoPath

storeFrame == <<level_stream, monitor, cleanup, hostVars, level, hotkeyVars,
                whisper_model, model_size, is_recording, is_muted, status,
                rec, temp_file_path, temp_fd, files, fds, loader, reload,
                start_ret, armed, stop_ret>>

\* a weight file is downloaded, bundled or deleted
FileChange(path) ==
    /\ path \in WeightPaths
    /\ model_files' = IF path \in model_files THEN model_files \ {path}
                      ELSE model_files \cup {path}
    /\ UNCHANGED <<lookup, storeFrame>>

\* both lookups for identifier m on the files as they are
Lookup(m) ==
    /\ lookup' = [model |-> m, path |-> GetModelPath(m),
                  available |-> IsModelAvailable(m)]
    /\ UNCHANGED <<model_files, storeFrame>>

(***************************************************************************)
(* AudioHandler.cleanup                                                    *)
(***************************************************************************)
\* lines 425-433: the guard, _cleanup_done and stop_recording if active
CleanupBegin ==
    /\ cleanup = "none"
    /\ cleanup' = "join"
    /\ is_recording' = FALSE
    /\ status' = IF is_recording THEN "Processing..." ELSE status
    /\ stop_ret' = IF is_recording THEN TRUE ELSE stop_ret
    /\ armed' = FALSE
    /\ UNCHANGED <<whisper_model, model_size, is_muted, rec, temp_file_path,
                   temp_fd, files, fds, loader, reload, start_ret,
                   level_stream, monitor, hostVars, level, storeVars, hotkeyVars>>

\* lines 436-482: both joins return, because the thread ended or after the
\* 3 s timeout; ModelManager.cleanup finds no 'model' attribute, and
\* persistent_pyaudio and open_file_descriptors are never set
CleanupEnd ==
    /\ cleanup = "join"
    /\ cleanup' = "done"
    /\ UNCHANGED <<whisper_model, model_size, is_recording, is_muted, status,
                   rec, temp_file_path, temp_fd, files, fds, loader, reload,
                   start_ret, armed, stop_ret, level_stream, monitor, hostVars,
                   level, storeVars, hotkeyVars>>

----------------------------------------------------------------------------
(***************************************************************************)
(* HotkeyManager: bindings, keys and the matching functions.               *)
(***************************************************************************)
\* callbacks kept in the record of one observed hold
MaxEdges == 3

Absent == "absent"

\* pynput keys and mouse buttons of the model: Key.ctrl_l, KeyCode('a'), Key.space
Keys == {"ctrl_l", "a", "space"}

\* Button.right
Buttons == {"right"}

\* line 218: the keys capture treats as modifiers
Modifiers == {"ctrl_l", "ctrl_r", "alt_l", "alt_r", "shift_l", "shift_r"}

\* a hotkey dict; Absent marks a key the dict does not have
KeyBinding(k) ==
    [type |-> "key", key |-> k, combo_modifier |-> Absent, combo_key |-> Absent,
     button |-> Absent, modifier |-> Absent]

ComboBinding(m, k) ==
    [type |-> "key", key |-> Absent, combo_modifier |-> m, combo_key |-> k,
     button |-> Absent, modifier |-> Absent]

MouseBinding(b) ==
    [type |-> "mouse", key |-> Absent, combo_modifier |-> Absent,
     combo_key |-> Absent, button |-> b, modifier |-> Absent]

\* hotkey_capture.py lines 429-433: a mouse button with a modifier
ModMouseBinding(m, b) ==
    [type |-> "mouse", key |-> Absent, combo_modifier |-> Absent,
     combo_key |-> Absent, button |-> b, modifier |-> m]

NoBinding ==
    [type |-> "none", key |-> Absent, combo_modifier |-> Absent,
     combo_key |-> Absent, button |-> Absent, modifier |-> Absent]

\* the bindings the application applies through set_hotkey
Bindings ==
    {KeyBinding("space"), KeyBinding("a"), ComboBinding("ctrl", "a"),
     MouseBinding("right")}

\* 'combo' in self.current_hotkey
HasCombo(h) == h.combo_key # Absent

\* hasattr(key, 'char') and key.char
CharOf(key) == IF key \in {"a", "A"} THEN key ELSE Absent

\* str.lower() on the characters of the model
Lower(c) == IF c = "A" THEN "a" ELSE c

\* _key_matches, lines 147-161
KeyMatches(key, target) ==
    CASE target = "space" -> key = "space"
      [] target = "ctrl" -> key \in {"ctrl_l", "ctrl_r"}
      [] target = "alt" -> key \in {"alt_l", "alt_r"}
      [] target = "shift" -> key \in {"shift_l", "shift_r"}
      [] target = "enter" -> key = "enter"
      [] OTHER -> /\ CharOf(key) # Absent
                  /\ target # Absent
                  /\ Lower(CharOf(key)) = Lower(target)

\* _is_modifier_pressed, lines 163-171, on a given pressed_keys
IsModifierPressed(modifier, pk) ==
    CASE modifier = "ctrl" -> "ctrl_l" \in pk \/ "ctrl_r" \in pk
      [] modifier = "alt" -> "alt_l" \in pk \/ "alt_r" \in pk
      [] modifier = "shift" -> "shift_l" \in pk \/ "shift_r" \in pk
      [] OTHER -> FALSE

\* _matches_key, lines 124-145, on a given pressed_keys
MatchesKey(key, pk) ==
    IF HasCombo(current_hotkey)
      THEN IF KeyMatches(key, current_hotkey.combo_key)
             THEN IsModifierPressed(current_hotkey.combo_modifier, pk)
             ELSE FALSE
      ELSE KeyMatches(key, IF current_hotkey.key = Absent THEN "space"
                           ELSE current_hotkey.key)

\* _matches_mouse_button, lines 173-192
MatchesMouseButton(button) ==
    LET hotkey_button == IF current_hotkey.button = Absent THEN "left"
                         ELSE current_hotkey.button
    IN  /\ hotkey_button \in {"left", "right", "middle", "x1", "x2"}
        /\ button = hotkey_button

----------------------------------------------------------------------------
(***************************************************************************)
(* The handlers, as functions of the fields they read and write.           *)
(***************************************************************************)
Gate ==
    [is_pressed |-> is_pressed, pressed_keys |-> pressed_keys,
     is_setting_hotkey |-> is_setting_hotkey, cap_keys |-> cap_keys,
     cap_kb |-> cap_kb, cap_ms |-> cap_ms, captured |-> captured,
     cb |-> "none"]

\* mutant of _on_key_press: the is_pressed test of line 87 is missing
OnKeyPress_NoRepeatGuard(g, key) ==
    IF g.is_setting_hotkey THEN g
    ELSE LET pk == g.pressed_keys \cup {key}
             g1 == [g EXCEPT !.pressed_keys = pk]
         IN  IF current_hotkey.type = "key" /\ MatchesKey(key, pk)
               THEN [g1 EXCEPT !.is_pressed = TRUE, !.cb = "press"]
               ELSE g1

\* _on_key_press, lines 78-91
OnKeyPress(g, key) ==
    IF g.is_setting_hotkey THEN g
    ELSE LET pk == g.pressed_keys \cup {key}
             g1 == [g EXCEPT !.pressed_keys = pk]
         IN  IF current_hotkey.type = "key" /\ MatchesKey(key, pk) /\ ~g.is_pressed
               THEN [g1 EXCEPT !.is_pressed = TRUE, !.cb = "press"]
               ELSE g1

\* _on_key_release, lines 93-106
OnKeyRelease(g, key) ==
    IF g.is_setting_hotkey THEN g
    ELSE LET pk == g.pressed_keys \ {key}
             g1 == [g EXCEPT !.pressed_keys = pk]
         IN  IF current_hotkey.type = "key" /\ MatchesKey(key, pk) /\ g.is_pressed
               THEN [g1 EXCEPT !.is_pressed = FALSE, !.cb = "release"]
               ELSE g1

\* _on_mouse_click, lines 108-122
OnMouseClick(g, button, pressed) ==
    IF g.is_setting_hotkey THEN g
    ELSE IF current_hotkey.type = "mouse" /\ MatchesMouseButton(button)
      THEN IF pressed /\ ~g.is_pressed
             THEN [g EXCEPT !.is_pressed = TRUE, !.cb = "press"]
           ELSE IF ~pressed /\ g.is_pressed
             THEN [g EXCEPT !.is_pressed = FALSE, !.cb = "release"]
           ELSE g
      ELSE g

\* lines 229-237: the name of a modifier key
ModifierName(m) ==
    CASE m \in {"ctrl_l", "ctrl_r"} -> "ctrl"
      [] m \in {"alt_l", "alt_r"} -> "alt"
      [] m \in {"shift_l", "shift_r"} -> "shift"
      [] OTHER -> "ctrl"

\* pressed_modifiers[0]; the model holds one modifier key, so the list has one entry
FirstModifier(pm) == CHOOSE m \in pm : TRUE

\* on_key_capture_press, lines 207-212
CaptureKeyPress(g, key) ==
    [g EXCEPT !.cap_keys = @ \cup {key}, !.pressed_keys = @ \cup {key}]

\* a capture handler hands a binding to the callback and returns False
CaptureDone(g, binding, listener) ==
    IF listener = "keyboard"
      THEN [g EXCEPT !.is_setting_hotkey = FALSE, !.captured = binding,
                     !.cap_kb = FALSE]
      ELSE [g EXCEPT !.is_setting_hotkey = FALSE, !.captured = binding,
                     !.cap_ms = FALSE]

\* on_key_capture_release, lines 214-311
CaptureKeyRelease(g, key) ==
    LET pressed_modifiers == g.cap_keys \cap Modifiers
        dropBoth == [g EXCEPT !.cap_keys = @ \ {key}, !.pressed_keys = @ \ {key}]
        dropCap == [g EXCEPT !.cap_keys = @ \ {key}]
    IN  IF pressed_modifiers # {} /\ key \notin Modifiers
          THEN LET modifier_name == ModifierName(FirstModifier(pressed_modifiers))
               IN  IF key = "space"
                     THEN CaptureDone(g, ComboBinding(modifier_name, "space"), "keyboard")
                   ELSE IF key = "enter"
                     THEN CaptureDone(g, ComboBinding(modifier_name, "enter"), "keyboard")
                   ELSE IF CharOf(key) # Absent
                     THEN CaptureDone(g, ComboBinding(modifier_name, Lower(CharOf(key))),
                                      "keyboard")
                   ELSE dropBoth
        ELSE IF key \notin Modifiers
          THEN IF key \in {"enter", "tab", "esc", "backspace", "delete"}
                 THEN dropCap
               ELSE IF key = "space"
                 THEN CaptureDone(g, KeyBinding("space"), "keyboard")
               ELSE IF CharOf(key) # Absent
                 THEN CaptureDone(g, KeyBinding(Lower(CharOf(key))), "keyboard")
               ELSE dropCap
        ELSE dropBoth

\* on_mouse_capture, lines 313-370
CaptureMouse(g, button, pressed) ==
    IF ~pressed THEN g
    ELSE IF button = "left"
      THEN LET pressed_modifiers == g.pressed_keys \cap Modifiers
           IN  IF pressed_modifiers # {}
                 THEN CaptureDone(g,
                        ComboBinding(ModifierName(FirstModifier(pressed_modifiers)),
                                     "enter"), "mouse")
                 ELSE g
    ELSE IF button \in {"right", "middle", "x1", "x2"}
      THEN CaptureDone(g, MouseBinding(button), "mouse")
    ELSE g

----------------------------------------------------------------------------
(***************************************************************************)
(* Raw events of the listener threads.  An event reaches every listener    *)
(* that is running; the main and the capture listener are separate         *)
(* threads, so their handlers run in either order.                         *)
(***************************************************************************)
NoHold == [k |-> None, seq |-> <<>>, rep |-> FALSE, done |-> FALSE]

\* the normal dispatch: only the main listeners run and capture mode is off
NormalDispatch == listening /\ ~is_setting_hotkey /\ ~cap_kb /\ ~cap_ms

\* input k is the main key or button of the current binding
IsTrigger(k) ==
    \/ /\ current_hotkey.type = "key"
       /\ k \in Keys
       /\ KeyMatches(k, IF HasCombo(current_hotkey) THEN current_hotkey.combo_key
                        ELSE IF current_hotkey.key = Absent THEN "space"
                        ELSE current_hotkey.key)
    \/ /\ current_hotkey.type = "mouse"
       /\ k \in Buttons
       /\ MatchesMouseButton(k)

AddEdge(seq, edge) ==
    IF edge = "none" \/ Len(seq) >= MaxEdges THEN seq ELSE Append(seq, edge)

\* the record of the hold under observation after event kind of input k
HoldAfter(k, kind, g) ==
    IF kind = "press" /\ IsTrigger(k) /\ ~is_pressed /\ NormalDispatch
      THEN [k |-> k, seq |-> AddEdge(<<>>, g.cb), rep |-> FALSE, done |-> FALSE]
    ELSE IF hold.k # None /\ ~hold.done
      THEN [k |-> hold.k, seq |-> AddEdge(hold.seq, g.cb),
            rep |-> hold.rep \/ (kind = "repeat" /\ k = hold.k),
            done |-> (kind = "release" /\ k = hold.k)]
    ELSE NoHold

Apply(g) ==
    /\ is_pressed' = g.is_pressed
    /\ pressed_keys' = g.pressed_keys
    /\ is_setting_hotkey' = g.is_setting_hotkey
    /\ cap_keys' = g.cap_keys
    /\ cap_kb' = g.cap_kb
    /\ cap_ms' = g.cap_ms
    /\ captured' = g.captured
    /\ cb' = g.cb

KeyPressResults(k) ==
    LET m(g) == IF listening THEN OnKeyPress(g, k) ELSE g
        c(g) == IF cap_kb THEN CaptureKeyPress(g, k) ELSE g
    IN  {c(m(Gate)), m(c(Gate))}

KeyReleaseResults(k) ==
    LET m(g) == IF listening THEN OnKeyRelease(g, k) ELSE g
        c(g) == IF cap_kb THEN CaptureKeyRelease(g, k) ELSE g
    IN  {c(m(Gate)), m(c(Gate))}

MouseResults(b, pressed) ==
    LET m(g) == IF listening THEN OnMouseClick(g, b, pressed) ELSE g
        c(g) == IF cap_ms THEN CaptureMouse(g, b, pressed) ELSE g
    IN  {c(m(Gate)), m(c(Gate))}

eventFrame == <<current_hotkey, listening, cap_session, dialogVars, pipeVars, audioVars>>

\* the key goes down
RawKeyPress(k) ==
    /\ k \in Keys \ down
    /\ down' = down \cup {k}
    /\ \E g \in KeyPressResults(k) : Apply(g) /\ hold' = HoldAfter(k, "press", g)
    /\ UNCHANGED <<eventFrame, stale>>

\* the OS repeats the press event of a held key
RawKeyRepeat(k) ==
    /\ k \in Keys \cap down
    /\ \E g \in KeyPressResults(k) : Apply(g) /\ hold' = HoldAfter(k, "repeat", g)
    /\ UNCHANGED <<eventFrame, stale, down>>

\* the key goes up
RawKeyRelease(k) ==
    /\ k \in Keys \cap down
    /\ down' = down \ {k}
    /\ \E g \in KeyReleaseResults(k) : Apply(g) /\ hold' = HoldAfter(k, "release", g)
    /\ stale' = stale \ {k}
    /\ UNCHANGED eventFrame

RawMousePress(b) ==
    /\ b \in Buttons \ down
    /\ down' = down \cup {b}
    /\ \E g \in MouseResults(b, TRUE) : Apply(g) /\ hold' = HoldAfter(b, "press", g)
    /\ UNCHANGED <<eventFrame, stale>>

RawMouseRelease(b) ==
    /\ b \in Buttons \cap down
    /\ down' = down \ {b}
    /\ \E g \in MouseResults(b, FALSE) : Apply(g) /\ hold' = HoldAfter(b, "release", g)
    /\ stale' = stale \ {b}
    /\ UNCHANGED eventFrame

----------------------------------------------------------------------------
(***************************************************************************)
(* set_hotkey and capture_new_hotkey.                                      *)
(***************************************************************************)
\* set_hotkey, lines 71-76; start_listeners leaves the main listeners running
SetHotkey(b) ==
    /\ current_hotkey' = b
    /\ is_pressed' = FALSE
    /\ listening' = TRUE
    /\ cb' = "none"
    /\ hold' = NoHold
    /\ stale' = IF is_pressed THEN stale \cup {k \in down : IsTrigger(k)} ELSE stale
    /\ UNCHANGED <<pressed_keys, is_setting_hotkey, cap_kb, cap_ms, cap_keys,
                   cap_session, captured, down, dialogVars, pipeVars, audioVars>>

\* capture_new_hotkey, lines 194-205 and 372-383, 389-407: the main listeners
\* stop, the capture listeners start and the stop function is returned
CaptureNewHotkey ==
    /\ ~cap_session
    /\ is_setting_hotkey' = TRUE
    /\ listening' = FALSE
    /\ cap_keys' = {}
    /\ captured' = NoBinding
    /\ cap_kb' = TRUE
    /\ cap_ms' = TRUE
    /\ cap_session' = TRUE
    /\ cb' = "none"
    /\ hold' = NoHold
    /\ UNCHANGED <<current_hotkey, is_pressed, pressed_keys, down, stale,
                   dialogVars, pipeVars, audioVars>>

\* capture_new_hotkey when a capture listener cannot be created or started,
\* lines 196-200, 372-387: the main listeners are already stopped, the flag
\* is cleared and a stop function that does nothing is returned.  The
\* keyboard listener is started before the mouse listener (lines 380-381),
\* so when the second start raises, the first is left running.
CaptureStartFails ==
    /\ ~cap_session
    /\ \E kb_started \in BOOLEAN : cap_kb' = (cap_kb \/ kb_started)
    /\ is_setting_hotkey' = FALSE
    /\ listening' = FALSE
    /\ cap_keys' = {}
    /\ captured' = NoBinding
    /\ cb' = "none"
    /\ hold' = NoHold
    /\ UNCHANGED <<cap_ms, cap_session, current_hotkey, is_pressed, pressed_keys,
                   down, stale, dialogVars, pipeVars, audioVars>>

\* the stop_capture function returned by capture_new_hotkey, lines 390-405
StopCapture ==
    /\ cap_session
    /\ cap_kb' = FALSE
    /\ cap_ms' = FALSE
    /\ is_setting_hotkey' = FALSE
    /\ listening' = TRUE
    /\ cap_session' = FALSE
    /\ captured' = NoBinding
    /\ cb' = "none"
    /\ hold' = NoHold
    /\ UNCHANGED <<current_hotkey, is_pressed, pressed_keys, cap_keys,
                   down, stale, dialogVars, pipeVars, audioVars>>

----------------------------------------------------------------------------
(***************************************************************************)
(* The HotkeyCapture dialog (hotkey_capture.py).  Its listeners run beside *)
(* the main listeners of HotkeyManager; a completed capture is persisted   *)
(* with SettingsManager.set_hotkey and applied, in the same handler, by    *)
(* the callback chain _show_success -> on_hotkey_changed ->                *)
(* apply_settings -> HotkeyManager.set_hotkey(settings.get_hotkey()).      *)
(***************************************************************************)
\* the keys of the dialog model: those of the gate, and Key.tab
DialogKeys == Keys \cup {"tab"}

\* no capture is active; mod_in and main_in remember the physical inputs of
\* the last completed capture
ClosedDialog ==
    [mode |-> "closed", combo_step |-> 0, modifier_key |-> None,
     mod_in |-> None, main_in |-> None]

\* settings_manager.py line 28
DefaultSettingsHotkey ==
    [type |-> "keyboard", key |-> "shift", combo_modifier |-> Absent,
     combo_key |-> Absent, button |-> Absent, modifier |-> Absent]

\* _get_key_name, lines 343-368
GetKeyName(key) ==
    IF CharOf(key) # Absent THEN Lower(CharOf(key))
    ELSE CASE key = "space" -> "space"
           [] key \in {"ctrl_l", "ctrl_r"} -> "ctrl"
           [] key \in {"alt_l", "alt_r"} -> "alt"
           [] key \in {"shift_l", "shift_r"} -> "shift"
           [] key = "tab" -> "tab"
           [] key = "caps_lock" -> "capslock"
           [] key = "esc" -> "escape"
           [] OTHER -> key

\* _get_mouse_button_name, lines 370-383
GetMouseButtonName(button) ==
    CASE button = "right" -> "right_click"
      [] button = "middle" -> "middle_click"
      [] button = "x1" -> "x1_click"
      [] button = "x2" -> "x2_click"
      [] OTHER -> None

\* key_name.endswith('_click')
EndsWithClick(key_name) ==
    key_name \in {"right_click", "middle_click", "x1_click", "x2_click"}

\* key_name.replace('_click', '')
ReplaceClick(key_name) ==
    CASE key_name = "right_click" -> "right"
      [] key_name = "middle_click" -> "middle"
      [] key_name = "x1_click" -> "x1"
      [] key_name = "x2_click" -> "x2"
      [] OTHER -> key_name

\* _complete_single_capture, lines 395-409: the hotkey_config it persists
CompleteSingleCapture(key_name) ==
    IF EndsWithClick(key_name) THEN MouseBinding(ReplaceClick(key_name))
    ELSE KeyBinding(key_name)

\* _complete_combo_capture, lines 421-445: the hotkey_config it persists
CompleteComboCapture(modifier, key_name) ==
    IF EndsWithClick(key_name) THEN ModMouseBinding(modifier, ReplaceClick(key_name))
    ELSE ComboBinding(modifier, key_name)

NoCapture(d) == [d |-> d, binding |-> NoBinding]

\* lines 294-312 and 333-339: what the dialog does with a named input
DialogInput(d, name, input) ==
    IF d.mode = "single"
      THEN [d |-> [ClosedDialog EXCEPT !.main_in = input],
            binding |-> CompleteSingleCapture(name)]
    ELSE IF d.combo_step = 0
      THEN IF name \in {"ctrl", "alt", "shift"}
             THEN NoCapture([d EXCEPT !.modifier_key = name, !.combo_step = 1,
                                      !.mod_in = input])
             ELSE NoCapture(d)
    ELSE [d |-> [ClosedDialog EXCEPT !.mod_in = d.mod_in, !.main_in = input],
          binding |-> CompleteComboCapture(d.modifier_key, name)]

\* HotkeyCapture._on_key_press, lines 276-318
HotkeyCaptureOnKeyPress(d, key) ==
    IF d.mode \notin {"single", "combo"} THEN NoCapture(d)
    ELSE IF key = "enter" THEN NoCapture(d)
    ELSE DialogInput(d, GetKeyName(key), key)

\* HotkeyCapture._on_mouse_click, lines 320-341
HotkeyCaptureOnMouseClick(d, button, pressed) ==
    IF d.mode \notin {"single", "combo"} \/ ~pressed THEN NoCapture(d)
    ELSE IF button = "left" THEN NoCapture(d)
    ELSE IF GetMouseButtonName(button) = None THEN NoCapture(d)
    ELSE DialogInput(d, GetMouseButtonName(button), button)

\* _start_single_capture and _start_combo_capture, lines 168-182
ShowHotkeyCapture(mode) ==
    /\ dlg.mode = "closed"
    /\ dlg' = [ClosedDialog EXCEPT !.mode = mode]
    /\ UNCHANGED <<saved_hotkey, current_hotkey, is_pressed, pressed_keys,
                   is_setting_hotkey, listening, cap_kb, cap_ms, cap_keys,
                   cap_session, captured, down, cb, hold, stale, pipeVars,
                   audioVars>>

\* _cancel_capture, lines 468-471
CancelCapture ==
    /\ dlg.mode \in {"single", "combo"}
    /\ dlg' = ClosedDialog
    /\ UNCHANGED <<saved_hotkey, current_hotkey, is_pressed, pressed_keys,
                   is_setting_hotkey, listening, cap_kb, cap_ms, cap_keys,
                   cap_session, captured, down, cb, hold, stale, pipeVars,
                   audioVars>>

\* One physical event with the dialog's listeners beside the main ones: g is
\* the gate after the main listener's handler, r what the dialog's handler
\* made of the event.  A completed capture is persisted (settings_manager.py
\* lines 133-136) and applied by set_hotkey (hotkey_manager.py lines 71-76).
DialogEvent(g, r) ==
    /\ dlg' = r.d
    /\ pressed_keys' = g.pressed_keys
    /\ cb' = g.cb
    /\ IF r.binding # NoBinding
         THEN /\ saved_hotkey' = r.binding
              /\ current_hotkey' = r.binding
              /\ is_pressed' = FALSE
              /\ listening' = TRUE
         ELSE /\ is_pressed' = g.is_pressed
              /\ UNCHANGED <<saved_hotkey, current_hotkey, listening>>
    /\ UNCHANGED <<is_setting_hotkey, cap_kb, cap_ms, cap_keys, cap_session,
                   captured, hold, stale, pipeVars,
                   audioVars>>

DialogKeyPress(k) ==
    /\ k \in DialogKeys \ down
    /\ down' = down \cup {k}
    /\ DialogEvent(IF listening THEN OnKeyPress(Gate, k) ELSE Gate,
                   HotkeyCaptureOnKeyPress(dlg, k))

\* the OS repeats the press event of a held key: on_press is called again
DialogKeyRepeat(k) ==
    /\ k \in DialogKeys \cap down
    /\ UNCHANGED down
    /\ DialogEvent(IF listening THEN OnKeyPress(Gate, k) ELSE Gate,
                   HotkeyCaptureOnKeyPress(dlg, k))

\* the dialog's keyboard listener has no release handler (lines 244-247)
DialogKeyRelease(k) ==
    /\ k \in DialogKeys \cap down
    /\ down' = down \ {k}
    /\ DialogEvent(IF listening THEN OnKeyRelease(Gate, k) ELSE Gate,
                   NoCapture(dlg))

DialogMousePress(b) ==
    /\ b \in Buttons \ down
    /\ down' = down \cup {b}
    /\ DialogEvent(IF listening THEN OnMouseClick(Gate, b, TRUE) ELSE Gate,
                   HotkeyCaptureOnMouseClick(dlg, b, TRUE))

DialogMouseRelease(b) ==
    /\ b \in Buttons \cap down
    /\ down' = down \ {b}
    /\ DialogEvent(IF listening THEN OnMouseClick(Gate, b, FALSE) ELSE Gate,
                   HotkeyCaptureOnMouseClick(dlg, b, FALSE))

\* Key.shift_l and Key.shift_r, hotkey_manager.py lines 153-154
ShiftKeys == {"shift_l", "shift_r"}

ShiftKeyPress(k) ==
    /\ k \in ShiftKeys \ down
    /\ down' = down \cup {k}
    /\ DialogEvent(IF listening THEN OnKeyPress(Gate, k) ELSE Gate,
                   HotkeyCaptureOnKeyPress(dlg, k))

ShiftKeyRelease(k) ==
    /\ k \in ShiftKeys \cap down
    /\ down' = down \ {k}
    /\ DialogEvent(IF listening THEN OnKeyRelease(Gate, k) ELSE Gate,
                   NoCapture(dlg))

\* V3PTTApp.apply_settings, main.py lines 64-76: set_device with the saved
\* device (settings_manager.py line 29: the default device), set_hotkey with
\* SettingsManager.get_hotkey() and set_mute with the saved mute state
\* (line 38: not muted)
ApplySettings ==
    /\ UIFree
    /\ selected_device_index' = DefaultDevice
    /\ level_stream' = ResetLevelStream(level_stream)
    /\ current_hotkey' = saved_hotkey
    /\ is_pressed' = FALSE
    /\ listening' = TRUE
    /\ cb' = "none"
    /\ hold' = NoHold
    /\ stale' = IF is_pressed THEN stale \cup {k \in down : IsTrigger(k)} ELSE stale
    /\ is_muted' = FALSE
    /\ status' = "Ready"
    /\ UNCHANGED <<pressed_keys, is_setting_hotkey, cap_kb, cap_ms, cap_keys,
                   cap_session, captured, down, dialogVars, pipeVars>>
    /\ UNCHANGED <<whisper_model, model_size, is_recording, rec, temp_file_path,
                   temp_fd, files, fds, loader, reload, start_ret, armed,
                   stop_ret, hw, enum, monitor, cleanup, level, storeVars>>

----------------------------------------------------------------------------
(***************************************************************************)
(* The gate wired to the capture engine (main.py lines 44-47, 111-117):    *)
(* on_hotkey_press is start_recording and on_hotkey_release is             *)
(* stop_recording, called inside the handler, in the listener thread.      *)
(***************************************************************************)
\* the keyboard and the mouse listener threads, hotkey_manager.py lines 37-50
ListenerThreads == {"kb", "ms"}

\* mutant: a listener takes its next event while a callback is running
ListenerFree_Always(t) == TRUE

\* a pynput listener runs its callbacks one after the other in its thread
ListenerFree(t) == calls[t] = "none"

\* lines 89-90, 103-105, 117-122: the callback an edge invokes
EdgeCall(edge) ==
    CASE edge = "press" -> "start"
      [] edge = "release" -> "stop"
      [] OTHER -> "none"

\* the handler of thread t has run up to its callback
PipeEvent(t, g) ==
    /\ is_pressed' = g.is_pressed
    /\ pressed_keys' = g.pressed_keys
    /\ cb' = g.cb
    /\ calls' = IF g.cb = "none" THEN calls
                ELSE [calls EXCEPT ![t] = EdgeCall(g.cb)]
    /\ hold_started' = IF g.cb = "press" THEN FALSE ELSE hold_started
    /\ UNCHANGED <<current_hotkey, listening, is_setting_hotkey, cap_kb, cap_ms,
                   cap_keys, cap_session, captured, hold, stale, dialogVars,
                   audioVars>>

PipeKeyPress(k) ==
    /\ k \in Keys \ down
    /\ ListenerFree("kb")
    /\ down' = down \cup {k}
    /\ PipeEvent("kb", IF listening THEN OnKeyPress(Gate, k) ELSE Gate)

PipeKeyRelease(k) ==
    /\ k \in Keys \cap down
    /\ ListenerFree("kb")
    /\ down' = down \ {k}
    /\ PipeEvent("kb", IF listening THEN OnKeyRelease(Gate, k) ELSE Gate)

PipeMousePress(b) ==
    /\ b \in Buttons \ down
    /\ ListenerFree("ms")
    /\ down' = down \cup {b}
    /\ PipeEvent("ms", IF listening THEN OnMouseClick(Gate, b, TRUE) ELSE Gate)

PipeMouseRelease(b) ==
    /\ b \in Buttons \cap down
    /\ ListenerFree("ms")
    /\ down' = down \ {b}
    /\ PipeEvent("ms", IF listening THEN OnMouseClick(Gate, b, FALSE) ELSE Gate)

pipeFrame == <<deviceVars, current_hotkey, is_pressed, pressed_keys,
               is_setting_hotkey, listening, cap_kb, cap_ms, cap_keys,
               cap_session, captured, down, cb, hold, stale, dialogVars>>

\* on_hotkey_press: V3PTTApp.start_recording, main.py lines 111-113
CallStart(t) ==
    /\ calls[t] = "start"
    /\ StartRecordingCall
    /\ calls' = [calls EXCEPT ![t] = "none"]
    /\ hold_started' = TRUE
    /\ UNCHANGED pipeFrame

\* on_hotkey_release: V3PTTApp.stop_recording, main.py lines 115-117
CallStop(t) ==
    /\ calls[t] = "stop"
    /\ StopRecordingCall
    /\ calls' = [calls EXCEPT ![t] = "none"]
    /\ UNCHANGED <<hold_started, pipeFrame>>

\* set_hotkey: stop_listeners joins both listener threads (lines 52-69), so
\* it goes on when their handlers have returned
PipeSetHotkey(b) ==
    /\ \A t \in ListenerThreads : calls[t] = "none"
    /\ SetHotkey(b)

----------------------------------------------------------------------------
Init ==
    /\ whisper_model = None
    /\ model_size = "small"      \* settings_manager.py line 33
    /\ is_recording = FALSE
    /\ is_muted = FALSE
    /\ status = "none"
    /\ rec = [i \in Sessions |-> IdleSession]
    /\ temp_file_path = 0
    /\ temp_fd = 0
    /\ files = {}
    /\ fds = {}
    /\ loader = [pc |-> "start", size |-> None, log |-> <<>>, ok |-> FALSE]
    /\ reload = [pc |-> "idle", prev |-> None, log |-> <<>>, ok |-> FALSE]
    /\ start_ret = FALSE
    /\ stop_ret = FALSE
    /\ armed = FALSE
    /\ level_stream = FALSE     \* audio_handler.py line 40
    /\ hw = <<1>>               \* a host with one microphone
    /\ enum = [ret |-> <<>>, failed |-> FALSE]
    /\ selected_device_index = DefaultDevice     \* audio_handler.py line 32
    /\ level = [chunk |-> NoChunk, ret |-> 0, err |-> FALSE]
    /\ model_files = {}
    /\ lookup = [model |-> None, path |-> NoPath, available |-> FALSE]
    /\ monitor = "sleep"
    /\ cleanup = "none"
    /\ current_hotkey = KeyBinding("space")     \* hotkey_manager.py line 22
    /\ is_pressed = FALSE
    /\ pressed_keys = {}
    /\ is_setting_hotkey = FALSE
    /\ listening = TRUE
    /\ cap_kb = FALSE
    /\ cap_ms = FALSE
    /\ cap_keys = {}
    /\ cap_session = FALSE
    /\ captured = NoBinding
    /\ down = {}
    /\ cb = "none"
    /\ hold = NoHold
    /\ stale = {}
    /\ dlg = ClosedDialog
    /\ calls = [t \in ListenerThreads |-> "none"]
    /\ hold_started = FALSE
    /\ saved_hotkey = DefaultSettingsHotkey

\* one step of a capture thread
ThreadStep ==
    \/ \E i \in Sessions : OpenStream(i)
    \/ \E i \in Sessions : ReadChunk(i)
    \/ \E i \in Sessions : SaveAudioFile(i)
    \/ \E i \in Sessions : CheckModel(i)
    \/ \E i \in Sessions : BindModel(i)
    \/ \E i \in Sessions : FinishInference(i)
    \/ \E i \in Sessions : CloseStream(i)

\* The capture engine: the callers of start_recording, stop_recording and
\* set_mute, the capture threads and the startup load thread.
Next ==
    \/ \E b \in BOOLEAN : SetMute(b)
    \/ StartRecording
    \/ StopRecording
    \/ ThreadStep
    \/ LoaderBegin
    \/ LoaderFinish

Spec == Init /\ [][Next]_vars

\* The steps a capture thread takes whenever it is scheduled.  A chunk read
\* while is_recording is True is not among them: how long the loop goes on,
\* and whether a read fails, is up to the caller and the device.
ThreadProgress(i) ==
    \/ OpenStream(i)
    \/ (~is_recording /\ ReadChunk(i))
    \/ SaveAudioFile(i)
    \/ CheckModel(i)
    \/ BindModel(i)
    \/ FinishInference(i)
    \/ CloseStream(i)

\* The capture engine with its threads scheduled fairly: every capture thread
\* and the startup load thread keep running; the callers are free.
FairSpec ==
    /\ Spec
    /\ \A i \in Sessions : WF_vars(ThreadProgress(i))
    /\ WF_vars(LoaderBegin)
    /\ WF_vars(LoaderFinish)

\* The model lifecycle: the startup load thread, reload_model on the UI
\* thread, and press-hold sessions that do not overlap.
LifecycleNext ==
    \/ LoaderBegin
    \/ LoaderFinish
    \/ \E m \in ModelIds : ReloadBegin(m)
    \/ ReloadFinish
    \/ (AliveThreads = {} /\ StartRecording)
    \/ StopRecording
    \/ ThreadStep

LifecycleSpec == Init /\ [][LifecycleNext]_vars

\* The input device: the monitor thread, press-hold sessions that do not
\* overlap, set_mute, the startup load and the shutdown.
DeviceNext ==
    \/ MonitorCheck
    \/ GetAudioLevel
    \/ LevelRead
    \/ CleanupBegin
    \/ CleanupEnd
    \/ \E b \in BOOLEAN : SetMute(b)
    \/ (AliveThreads = {} /\ StartRecording)
    \/ StopRecording
    \/ ThreadStep
    \/ LoaderBegin
    \/ LoaderFinish

DeviceSpec == Init /\ [][DeviceNext]_vars

\* The hotkey gate: raw events, set_hotkey and capture mode.
HotkeyNext ==
    \/ \E k \in Keys : RawKeyPress(k)
    \/ \E k \in Keys : RawKeyRepeat(k)
    \/ \E k \in Keys : RawKeyRelease(k)
    \/ \E b \in Buttons : RawMousePress(b)
    \/ \E b \in Buttons : RawMouseRelease(b)
    \/ \E b \in Bindings : SetHotkey(b)
    \/ CaptureNewHotkey
    \/ StopCapture

HotkeySpec == Init /\ [][HotkeyNext]_vars

\* The hotkey gate with capture sessions whose listeners may fail to start.
CaptureNext ==
    \/ HotkeyNext
    \/ CaptureStartFails

CaptureSpec == Init /\ [][CaptureNext]_vars

\* keys keep being pressed and released
Typing == \E k \in Keys : RawKeyPress(k) \/ RawKeyRelease(k)

\* The caller of capture_new_hotkey calls the stop function it was given
\* (settings dialog closing), and the user keeps typing.
CaptureFairSpec == CaptureSpec /\ WF_vars(StopCapture) /\ WF_vars(Typing)

\* The hotkey gate with the HotkeyCapture dialog of the settings window.
DialogNext ==
    \/ \E mode \in {"single", "combo"} : ShowHotkeyCapture(mode)
    \/ CancelCapture
    \/ \E k \in DialogKeys : DialogKeyPress(k)
    \/ \E k \in DialogKeys : DialogKeyRepeat(k)
    \/ \E k \in DialogKeys : DialogKeyRelease(k)
    \/ \E b \in Buttons : DialogMousePress(b)
    \/ \E b \in Buttons : DialogMouseRelease(b)

DialogSpec == Init /\ [][DialogNext]_vars

\* The gate wired to the capture engine: the listener threads' events and
\* callbacks, and set_hotkey.  The capture threads never touch the gate or
\* the callbacks in flight, so their steps are left to Spec.
PipelineNext ==
    \/ \E k \in Keys : PipeKeyPress(k)
    \/ \E k \in Keys : PipeKeyRelease(k)
    \/ \E b \in Buttons : PipeMousePress(b)
    \/ \E b \in Buttons : PipeMouseRelease(b)
    \/ \E t \in ListenerThreads : CallStart(t)
    \/ \E t \in ListenerThreads : CallStop(t)
    \/ \E b \in Bindings : PipeSetHotkey(b)
    \/ \E muted \in BOOLEAN : SetMute(muted)

PipelineSpec == Init /\ [][PipelineNext]_vars

\* The settings applied at startup and after each change in the settings
\* window, with the capture dialog, the shift keys and the mouse.
SettingsNext ==
    \/ ApplySettings
    \/ \E k \in ShiftKeys : ShiftKeyPress(k)
    \/ \E k \in ShiftKeys : ShiftKeyRelease(k)
    \/ \E b \in Buttons : DialogMousePress(b)
    \/ \E b \in Buttons : DialogMouseRelease(b)
    \/ \E mode \in {"single", "combo"} : ShowHotkeyCapture(mode)
    \/ CancelCapture

SettingsSpec == Init /\ [][SettingsNext]_vars

\* The wired gate with its listener threads scheduled: a callback a handler
\* has invoked (lines 89-90, 103-105, 117-122) runs to its end; the user and
\* the callers of set_hotkey and set_mute are free.
PipelineFairSpec ==
    /\ PipelineSpec
    /\ \A t \in ListenerThreads : WF_vars(CallStart(t))
    /\ \A t \in ListenerThreads : WF_vars(CallStop(t))

\* Device enumeration, with devices coming and going and the mute switch.
EnumNext ==
    \/ \E h \in HostTables : Replug(h)
    \/ GetAudioDevices
    \/ \E muted \in BOOLEAN : SetMute(muted)

EnumSpec == Init /\ [][EnumNext]_vars

\* The level meter and the switches of the settings window: the monitor
\* thread's calls of get_audio_level, set_mute, set_device, and recordings
\* that do not overlap.
MeterNext ==
    \/ MonitorCheck
    \/ GetAudioLevel
    \/ LevelRead
    \/ \E muted \in BOOLEAN : SetMute(muted)
    \/ \E d \in {DefaultDevice, 0} : SetDevice(d)
    \/ (AliveThreads = {} /\ StartRecording)
    \/ StopRecording
    \/ ThreadStep
    \/ LoaderBegin
    \/ LoaderFinish

MeterSpec == Init /\ [][MeterNext]_vars

\* Model storage: weight files come and go, and identifiers are looked up.
StoreNext ==
    \/ \E path \in WeightPaths : FileChange(path)
    \/ \E m \in LookupIds : Lookup(m)

StoreSpec == Init /\ [][StoreNext]_vars

----------------------------------------------------------------------------
(***************************************************************************)
(* The claims.                                                             *)
(***************************************************************************)

\* C1: under every interleaving of start_recording and stop_recording, at
\* most one recording input stream is open at any time.
C1_OneRecordingStream == Cardinality(OpenStreams) <= 1

\* C2: a start_recording that follows a successful start_recording with no
\* stop_recording in between returns False, starts no capture thread (so
\* opens no stream) and leaves is_recording as the first call set it (True).
C2_SecondStartRejected ==
    [][(armed /\ StartRecording) =>
          /\ start_ret' = FALSE
          /\ rec' = rec
          /\ is_recording
          /\ is_recording' = is_recording]_vars

\* a second start_recording was rejected while the first session is still armed
C2_Witness == armed /\ is_recording /\ ~is_muted /\ start_ret = FALSE

\* C3: while muted, every start_recording returns False, emits the muted
\* status, starts no capture thread and does not set is_recording.
C3_MutedStartFails ==
    [][(is_muted /\ StartRecording) =>
          /\ start_ret' = FALSE
          /\ status' = "Microphone is muted"
          /\ rec' = rec
          /\ is_recording' = is_recording]_vars

\* start_recording was called while muted and no recording was active
C3_Witness ==
    /\ is_muted
    /\ ~is_recording
    /\ start_ret = FALSE
    /\ status = "Microphone is muted"

\* C4: when reload_model fails to load while a model was loaded, the model
\* that was loaded before the swap is still the current handle.
C4_FailedSwapKeepsModel ==
    [][(ReloadFinish /\ status' = "Model load error" /\ reload.prev # None) =>
          whisper_model' = reload.prev]_vars

\* C5: a transcription that passed the model check of line 290 and saw a
\* reload_model begin before it returned does not end in an error for the
\* missing handle, and its output comes from the model it checked.
C5_InFlightSurvivesSwap ==
    \A i \in Sessions :
        (rec[i].pc = "close" /\ rec[i].swapped) =>
            /\ rec[i].outcome # "error_no_handle"
            /\ (rec[i].outcome \in {"text", "empty", "error_inference"} =>
                    rec[i].used = rec[i].checked)

\* C6: at most one model load is in flight: the startup load and a
\* reload_model never load at the same time.
C6_OneLoadInFlight == ~(loader.pc = "loading" /\ reload.pc = "loading")

\* the two keys of a combo binding: its main key and its modifier
IsHalf(k) ==
    /\ HasCombo(current_hotkey)
    /\ \/ KeyMatches(k, current_hotkey.combo_key)
       \/ KeyMatches(k, current_hotkey.combo_modifier)

\* a combo binding has fired and both of its keys are still held
ComboFired ==
    /\ current_hotkey.type = "key"
    /\ HasCombo(current_hotkey)
    /\ is_pressed
    /\ NormalDispatch
    /\ \E k \in down : KeyMatches(k, current_hotkey.combo_key)
    /\ \E k \in down : KeyMatches(k, current_hotkey.combo_modifier)

\* C7: with a combo binding in the Fired state, the release of either half
\* returns the gate to Idle and invokes the release callback.
C7_ComboReleaseEitherHalf ==
    [][\A k \in Keys :
          (ComboFired /\ IsHalf(k) /\ RawKeyRelease(k)) =>
              (~is_pressed' /\ cb' = "release")]_vars

\* the binding has no combo: a single key or a single mouse button
IsSingle(h) == h.type \in {"key", "mouse"} /\ ~HasCombo(h)

C9_RebindMidPressSilent ==
    [][/\ \A b \in Bindings : SetHotkey(b) => ~is_pressed'
       /\ \A k \in stale :
             (RawKeyRepeat(k) \/ RawKeyRelease(k) \/ RawMouseRelease(k)) =>
                 cb' = "none"]_vars

\* C10: with a combo binding, the press callback is invoked only when the
\* configured modifier is physically held as the main key press arrives.
C10_PressOnlyWithModifierHeld ==
    (cb = "press" /\ current_hotkey.type = "key" /\ HasCombo(current_hotkey)) =>
        \E m \in down : KeyMatches(m, current_hotkey.combo_modifier)

----------------------------------------------------------------------------
(***************************************************************************)
(* The scratch file, zero-frame sessions and the transcript callback.      *)
(***************************************************************************)
\* C11: once a session's transcription attempt has ended (the thread is past
\* _save_audio_file and about to close its stream), the scratch file it
\* created no longer exists and its file descriptor is closed.
C11_ScratchFileRemoved ==
    \A i \in Sessions :
        (rec[i].pc = "close" /\ rec[i].handed > 0) =>
            (i \notin files /\ i \notin fds)

\* C12: the step on which a session leaves the read loop with zero frames
\* reports "No speech detected", and the session never invoked inference.
C12_ZeroFramesReportSilence ==
    [][\A i \in Sessions :
          (ReadChunk(i) /\ rec'[i].pc = "close") =>
              (status' = "No speech detected" /\ rec'[i].used = None)]_vars

\* the returned text holds a character that is not whitespace
HasSpeech(r) == \E k \in 1..Len(r) : r[k] \notin Whitespace

\* C13: when inference returns, transcript_callback is invoked exactly once
\* if the trimmed text is non-empty (status "Transcription ready") and never
\* if it is empty, in which case the status becomes "No speech detected".
C13_TranscriptCallbackOnce ==
    [][\A i \in Sessions :
          (FinishInference(i) /\ rec'[i].outcome \in {"text", "empty"}) =>
              IF HasSpeech(rec'[i].raw)
                THEN rec'[i].cbs = 1 /\ status' = "Transcription ready"
                ELSE rec'[i].cbs = 0 /\ status' = "No speech detected"]_vars

C13_Witness ==
    \E i \in Sessions :
        /\ rec[i].pc = "close"
        /\ rec[i].raw = <<" ">>
        /\ rec[i].outcome = "empty"
        /\ rec[i].cbs = 0
        /\ status = "No speech detected"

----------------------------------------------------------------------------
(***************************************************************************)
(* What follows a stop_recording that returned True.                       *)
(***************************************************************************)
\* C14: after stop_recording has returned True (the status is
\* "Processing..."), the status eventually becomes something else.
C14_ProcessingEnds ==
    (status = "Processing...") ~> (status # "Processing...")

\* C15: once the recording flag is cleared, every capture thread that is
\* opening its stream or in its read loop eventually leaves the loop.
C15_StoppedThreadLeavesLoop ==
    \A i \in Sessions :
        (~is_recording /\ rec[i].pc \in {"open", "loop"})
            ~> (rec[i].pc \notin {"open", "loop"})

\* C16: the step on which the input device fails to open makes the
\* start_recording of that session return False, reports the failure and
\* leaves the engine out of the recording state.
C16_OpenFailureFailsStart ==
    [][\A i \in Sessions :
          (OpenStream(i) /\ rec'[i].pc = "idle") =>
              /\ start_ret' = FALSE
              /\ status' = "Recording error"
              /\ ~is_recording']_vars

\* C17: a chunk read error after at least one captured chunk ends the read
\* loop at once and hands the captured frames to _save_audio_file; from then
\* on they have been handed over exactly once, and a later stop_recording
\* hands nothing over again.
C17_PartialFramesHandedOnce ==
    /\ [](\A i \in Sessions :
             (rec[i].broke /\ rec[i].frames > 0) =>
                 rec[i].handed = IF rec[i].pc = "save" THEN 0 ELSE 1)
    /\ [][\A i \in Sessions :
             /\ (ReadChunk(i) /\ rec'[i].broke /\ rec[i].frames > 0) =>
                    rec'[i].pc = "save"
             /\ StopRecording => rec' = rec]_vars

C17_Witness ==
    \E i \in Sessions :
        /\ rec[i].broke
        /\ rec[i].frames > 0
        /\ rec[i].pc = "close"
        /\ rec[i].handed = 1
        /\ rec[i].outcome = "text"
        /\ ~is_recording
        /\ status = "Processing..."

----------------------------------------------------------------------------
(***************************************************************************)
(* The input device at shutdown and under metering.                        *)
(***************************************************************************)
\* C18: when cleanup() returns, no recording stream and no metering stream is
\* open and the model reference has been released.
C18_CleanupReleasesAll ==
    [][CleanupEnd =>
          (OpenStreams' = {} /\ ~level_stream' /\ whisper_model' = None)]_vars

\* C19: the monitor thread is never inside the device read of
\* get_audio_level while a recording stream is open.
C19_NoMeterReadWhileStreamOpen ==
    ~(monitor = "read" /\ OpenStreams # {})

----------------------------------------------------------------------------
(***************************************************************************)
(* Swapping the model.                                                     *)
(***************************************************************************)
\* C20: while a swap from a loaded model to another one is loading, the
\* current handle is never empty (the old model is released only once the
\* new one is ready).
C20_HandleHeldDuringSwap ==
    (reload.pc = "loading" /\ reload.prev # None) => whisper_model # None

\* C21: while a load is in progress (startup load or swap) the current handle
\* is None, and a handle that is not None is the model most recently
\* requested.
C21_HandleOnlyWhenReady ==
    /\ (loader.pc = "loading" \/ reload.pc = "loading") => whisper_model = None
    /\ whisper_model # None => whisper_model = model_size

\* C22: the calling (UI) thread is never the one that performs a model
\* load: it is never inside the load of reload_model.
C22_LoadsOffTheCallingThread ==
    reload.pc # "loading"

\* the statuses of one load follow Loading, then Ready or Error: "ready" is
\* emitted only by a load that succeeded and never after "failed" or "error"
LifecycleOrder(log, ok) ==
    /\ \A k \in 1..Len(log) : log[k] = "ready" => ok
    /\ \A j, k \in 1..Len(log) :
           (j < k /\ log[j] \in {"failed", "error"}) => log[k] # "ready"
    /\ log # <<>> => log[1] \in {"loading", "switching"}

\* C23: for the startup load and for every reload_model, the emitted statuses
\* follow the lifecycle: no "ready" for a failed load, no "ready" after an
\* error status of the same load, and a finished load ends in Ready or Error.
C23_StatusFollowsLifecycle ==
    /\ LifecycleOrder(loader.log, loader.ok)
    /\ LifecycleOrder(reload.log, reload.ok)
    /\ loader.pc = "done" => loader.log[Len(loader.log)] \in {"ready", "error"}
    /\ (reload.pc = "idle" /\ reload.log # <<>>) =>
           reload.log[Len(reload.log)] \in {"ready", "error"}

C23_Witness ==
    /\ loader.pc = "done"
    /\ loader.log = <<"loading", "ready">>
    /\ reload.pc = "idle"
    /\ reload.log = <<"switching", "loading", "failed", "error">>

----------------------------------------------------------------------------
(***************************************************************************)
(* Transcription without a model and failing inference.                    *)
(***************************************************************************)
\* C24: when _transcribe_audio is entered while no model is loaded, inference
\* is not invoked, "No model or audio file" is reported, transcript_callback
\* is not invoked and the session's scratch file and descriptor are gone.
C24_NoModelDiscardsRecording ==
    [][\A i \in Sessions :
          (CheckModel(i) /\ whisper_model = None) =>
              /\ rec'[i].pc = "close"
              /\ rec'[i].used = None
              /\ rec'[i].cbs = 0
              /\ status' = "No model or audio file"
              /\ i \notin files'
              /\ i \notin fds']_vars

C24_Witness ==
    \E i \in Sessions :
        /\ rec[i].pc = "close"
        /\ rec[i].outcome = "no_model"
        /\ rec[i].handed = 1
        /\ whisper_model = None
        /\ temp_file_path = 0
        /\ status = "No model or audio file"

\* C25: once inference has raised for an utterance (its thread is about to
\* close its stream), and no capture thread is opening or reading its
\* stream, a start_recording made while not muted is not rejected: it
\* returns True unless the new thread itself cannot be started.
C25_ReadyAfterInferenceError ==
    [][(/\ StartRecording
        /\ ~is_muted
        /\ \E i \in Sessions :
              rec[i].pc = "close" /\ rec[i].outcome = "error_inference"
        /\ \A j \in Sessions : rec[j].pc \notin {"open", "loop"}) =>
           (start_ret' = TRUE \/ status' = "Recording start error")]_vars

\* C26: once a capture session of HotkeyManager has ended (no stop function
\* is outstanding, or a binding has been captured), normal dispatch is
\* eventually restored: is_setting_hotkey is False, the main listeners run
\* and no capture listener runs.
C26_CaptureRestoresDispatch ==
    (~cap_session \/ captured # NoBinding) ~> NormalDispatch

\* C27: with a modifier+mouse-button binding in force, a press callback is
\* invoked on a button press only when the configured modifier is held at
\* that moment.
C27_ModifierMouseNeedsModifier ==
    [][\A b \in Buttons :
         (/\ DialogMousePress(b)
          /\ dlg.mode = "closed"
          /\ current_hotkey.type = "mouse"
          /\ current_hotkey.modifier # Absent
          /\ cb' = "press") =>
            IsModifierPressed(current_hotkey.modifier, down)]_vars

\* the binding in force is the one the dialog captured and persisted last
DialogApplied ==
    /\ dlg.mode = "closed"
    /\ dlg.main_in # None
    /\ current_hotkey = saved_hotkey
    /\ listening
    /\ ~is_setting_hotkey

\* C28: once a binding captured by the dialog has been persisted, reloaded
\* and applied, pressing the captured physical input again (with the
\* captured modifier held, for a combination) while the gate is idle
\* invokes the press callback.
C28_CapturedInputFiresPress ==
    [][\A k \in DialogKeys \cup Buttons :
         (/\ DialogKeyPress(k) \/ DialogMousePress(k)
          /\ DialogApplied
          /\ k = dlg.main_in
          /\ ~is_pressed
          /\ dlg.mod_in = None \/ dlg.mod_in \in down') =>
            cb' = "press"]_vars

\* C30: stop_recording called while no recording is active returns False and
\* leaves the recording flag, the mute flag, the status, the metering stream,
\* the capture threads and the scratch file as they were.
C30_InactiveStopChangesNothing ==
    [][(StopRecording /\ ~is_recording) =>
         /\ stop_ret' = FALSE
         /\ UNCHANGED <<is_recording, is_muted, status, level_stream, rec,
                        temp_file_path, temp_fd, files, fds, whisper_model>>]_vars

\* a stop_recording was accepted, and a later one found no recording active
C30_Witness ==
    /\ stop_ret = FALSE
    /\ ~is_recording
    /\ status = "Processing..."
    /\ cleanup = "none"

C31_EnumerationFailureReturnsEmpty ==
    [][(GetAudioDevices /\ enum'.failed) =>
         (enum'.ret = <<>> /\ status' = "Device enumeration error")]_vars

\* C32: get_audio_level returns a value in [0, 100] (here in hundredths)
\* for every chunk, the squares being taken in 16-bit arithmetic; it
\* returns 0 when muted and 0 on an I/O error, and after an I/O error no
\* metering stream is left, so the next call creates one.
C32_LevelInRange ==
    /\ [](level.ret \in 0..10000)
    /\ [][(GetAudioLevel /\ is_muted) => level'.ret = 0]_vars
    /\ [][(LevelRead /\ level'.err) => (level'.ret = 0 /\ ~level_stream')]_vars
    /\ [][(GetAudioLevel /\ ~is_muted /\ ~level_stream) =>
            (level_stream' \/ level'.ret = 0)]_vars

\* a chunk whose 16-bit squares sum to a negative number was metered
C32_Witness ==
    /\ level.chunk # NoChunk
    /\ SumSq(level.chunk, Len(level.chunk)) < 0
    /\ level.ret = 0
    /\ ~level.err

\* C33: set_mute sets the mute flag and leaves the metering stream, the
\* selected device, the recording flag and the capture threads as they
\* were; a capture thread reading while muted stays in its read loop unless
\* the read itself fails.
C33_SetMuteOnlyMutes ==
    /\ [][\A m \in BOOLEAN :
            SetMute(m) =>
              /\ is_muted' = m
              /\ UNCHANGED <<level_stream, selected_device_index,
                             is_recording, rec>>]_vars
    /\ [][\A i \in Sessions :
            (ReadChunk(i) /\ is_muted /\ is_recording) =>
              (rec'[i].pc = "loop" \/ rec'[i].broke)]_vars

\* muted during a recording: the thread is still reading, the metering
\* stream and the selected device are as they were
C33_Witness ==
    /\ is_muted
    /\ is_recording
    /\ status = "Microphone muted"
    /\ \E i \in Sessions : rec[i].pc = "loop" /\ rec[i].frames > 0
    /\ level_stream
    /\ selected_device_index = 0

\* C34: for every identifier and every set of files present, get_model_path
\* returns the bundled path when the bundled file exists, otherwise a cache
\* path that exists, otherwise None; and is_model_available is true exactly
\* when get_model_path is not None.
C34_BundledThenCache ==
    [][\A m \in LookupIds :
         Lookup(m) =>
           LET r == lookup'
               cached == {CachePath(m), CachePathV3(m)} \cap model_files
           IN  /\ LocalPath(m) \in model_files => r.path = LocalPath(m)
               /\ (LocalPath(m) \notin model_files /\ cached # {}) =>
                      r.path \in cached
               /\ (LocalPath(m) \notin model_files /\ cached = {}) =>
                      r.path = NoPath
               /\ r.available <=> r.path # NoPath]_vars

\* "large" was resolved to the cache although only large-v3.pt is cached,
\* while a bundled file of another identifier exists
C34_Witness ==
    /\ lookup.model = "large"
    /\ lookup.available
    /\ lookup.path = CachePathV3("large")
    /\ LocalPath("large-v3") \in model_files

\* C35: once every key and button is up again after a press-hold session
\* (the trigger is fully released) while the engine is recording, the engine
\* eventually stops recording, also when set_hotkey was applied during the
\* hold or a combo's modifier went up before its main key.
C35_ReleaseStopsRecording ==
    (is_recording /\ down = {}) ~> ~is_recording

\* C36: is_recording is True only while some capture thread is about to open
\* its stream or is in its read loop; once the capture thread has ended on a
\* device-open failure or left the loop on a chunk read error, is_recording
\* is False.
C36_RecordingHasReader ==
    is_recording => \E i \in Sessions : rec[i].pc \in {"open", "loop"}

\* C37: while a session's transcription is in progress (its frames are saved
\* and its inference has not finished), its own scratch file exists and is
\* the file the engine's path names: no other session has deleted or
\* replaced it.
C37_ScratchFileOwned ==
    \A i \in Sessions :
        rec[i].pc \in {"check", "bind", "infer"} =>
            (i \in files /\ temp_file_path = i)

\* C38: apply_settings hands set_hotkey a binding of type key or mouse, and
\* with the built-in default binding in force and the gate idle, pressing a
\* trigger key (a shift key) invokes the press callback and releasing it
\* while the gate is pressed invokes the release callback.
C38_DefaultTriggerFires ==
    /\ [][ApplySettings => current_hotkey'.type \in {"key", "mouse"}]_vars
    /\ [][\A k \in ShiftKeys :
            (/\ current_hotkey = DefaultSettingsHotkey
             /\ listening
             /\ dlg.mode = "closed"
             /\ down \cap ShiftKeys = {}) =>
                /\ (ShiftKeyPress(k) /\ ~is_pressed) => cb' = "press"
                /\ (ShiftKeyRelease(k) /\ is_pressed) => cb' = "release"]_vars

\* C39: a combo capture is completed by a second input different from the
\* modifier accepted at step 0 (a repeated press event of the held modifier
\* does not complete it), and the main key of a stored combo is never its
\* modifier.
C39_ComboMainIsNotModifier ==
    /\ (dlg.mod_in # None /\ dlg.main_in # None) => dlg.main_in # dlg.mod_in
    /\ saved_hotkey.combo_key # Absent =>
           saved_hotkey.combo_key # saved_hotkey.combo_modifier

=============================================================================
